---- MODULE Spec2Model ----
(***************************************************************************)
(* ToastMaster: a manager (ToastMaster.ts) that owns a container element,  *)
(* a Map of toasts keyed by generated id and the current positioning, and  *)
(* toasts (ToastMasterToast.ts) that each own one Bootstrap toast widget.  *)
(*                                                                         *)
(* The widget toolkit (bootstrap.Toast) is the environment.  It is         *)
(* modelled by its documented behaviour: show() makes the widget shown;    *)
(* hide() on a shown widget dispatches hide.bs.toast synchronously and     *)
(* starts the hide transition; when the transition ends the toolkit        *)
(* dispatches hidden.bs.toast.  The autohide timer and the close button    *)
(* (data-bs-dismiss) call hide() on the widget themselves.                 *)
(***************************************************************************)
EXTENDS Integers, Sequences, FiniteSets, TLC

VARIABLES
    toasts,        \* id -> fields of every constructed ToastMasterToast
    toastMap,      \* ToastMaster._toastMap: the keys, in insertion order
    container,     \* children of ToastMaster._container, in document order
    positioning,   \* ToastMaster._currentPositioning
    classList,     \* ToastMaster._container.classList, in token order
    lastCall       \* the last call made, and what it did

vars == <<toasts, toastMap, container, positioning, classList, lastCall>>

toastVars == <<toasts, toastMap, container>>
posVars == <<positioning, classList>>

----------------------------------------------------------------------------
(* Bounds *)

MaxToasts == 2       \* toasts constructed in one behaviour of Spec
MaxCreated == 1      \* toasts constructed in one behaviour of SpecCreate
MaxHideCount == 3    \* cap of the per-toast count of hide() requests
MaxTeardown == 1     \* toasts constructed in one behaviour of SpecTeardown

----------------------------------------------------------------------------
(* JavaScript values: one record shape for every type, so that values of   *)
(* different types can be compared.                                        *)

Undefined == [type |-> "undefined", num |-> 0, bool |-> FALSE, str |-> ""]
JSNull == [type |-> "null", num |-> 0, bool |-> FALSE, str |-> ""]
JSBool(b) == [type |-> "boolean", num |-> 0, bool |-> b, str |-> ""]
JSNum(n) == [type |-> "number", num |-> n, bool |-> FALSE, str |-> ""]
JSStr(s) == [type |-> "string", num |-> 0, bool |-> FALSE, str |-> s]

\* typeof v: null is reported as "object"
TypeOf(v) == IF v.type = "null" THEN "object" ELSE v.type

\* An options argument: `type` is the type of the argument itself; for an
\* object the four properties hold what reading them yields (an absent
\* property reads as undefined).
OptionsObject(scope, content, autohide, variant) ==
    [type |-> "object", scope |-> scope, content |-> content,
     autohide |-> autohide, variant |-> variant]

OptionsPrimitive(v) ==
    [type |-> v.type, scope |-> Undefined, content |-> Undefined,
     autohide |-> Undefined, variant |-> Undefined]

----------------------------------------------------------------------------
(* Strings: Number.prototype.toString for the non-negative integers used   *)
(* here, String.prototype.startsWith, and the toolkit's parse of a numeric *)
(* data attribute.                                                         *)

Digits == <<"0", "1", "2", "3", "4", "5", "6", "7", "8", "9">>

RECURSIVE NumberToString(_)
NumberToString(n) ==
    IF n < 10 THEN Digits[n + 1]
    ELSE NumberToString(n \div 10) \o Digits[(n % 10) + 1]

DigitValue(c) == CHOOSE d \in 0..9 : Digits[d + 1] = c

RECURSIVE ParseNumber(_)
ParseNumber(s) ==
    IF Len(s) = 1 THEN DigitValue(s)
    ELSE 10 * ParseNumber(SubSeq(s, 1, Len(s) - 1))
         + DigitValue(SubSeq(s, Len(s), Len(s)))

StartsWith(s, prefix) ==
    Len(s) >= Len(prefix) /\ SubSeq(s, 1, Len(prefix)) = prefix

\* `${v}` for the values a positioning offset can hold
TemplateString(v) ==
    IF v.type = "number" THEN NumberToString(v.num)
    ELSE IF v.type = "string" THEN v.str
    ELSE v.type

----------------------------------------------------------------------------
(* ToastMasterToast *)

Variants == {"info", "success", "warning", "error"}

DefaultAutohide == 5000

ErrOptionsObject == "The options parameter must be an object."
ErrScope == "The scope option must be a string."
ErrContent == "The content option must be a string."
ErrAutohide == "The autohide option must be a number or a boolean."
ErrVariant == "The variant option must be one of the following values: info, success, warning, error."
\* thrown by the engine, not by the library, when a property of null is read
ErrTypeError == "TypeError: Cannot read properties of null (reading 'scope')"
NoError == ""

\* The first failing check of the constructor, in the order of the code.
\* `typeof options === undefined` compares a string with undefined and is
\* never true, so an undefined argument falls to the second test.
ValidationError(options) ==
    IF TypeOf(options) # "object" THEN ErrOptionsObject
    ELSE IF options.type = "null" THEN ErrTypeError
    ELSE IF options.scope # Undefined /\ TypeOf(options.scope) # "string"
        THEN ErrScope
    ELSE IF TypeOf(options.content) # "string" THEN ErrContent
    ELSE IF options.autohide # Undefined
            /\ TypeOf(options.autohide) # "number"
            /\ TypeOf(options.autohide) # "boolean"
        THEN ErrAutohide
    ELSE IF options.variant # Undefined
            /\ (TypeOf(options.variant) # "string"
                \/ options.variant.str \notin Variants)
        THEN ErrVariant
    ELSE NoError

\* the autohide block without the case `options.autohide === true`
NormaliseAutohide_NoTrue(autohide) ==
    IF autohide = Undefined THEN DefaultAutohide
    ELSE IF TypeOf(autohide) = "number" /\ autohide.num > 0 THEN autohide.num
    ELSE 0

\* this._autohide after the constructor's autohide block
NormaliseAutohide(autohide) ==
    IF autohide = Undefined THEN DefaultAutohide
    ELSE IF autohide = JSBool(TRUE) \/ autohide = Undefined THEN DefaultAutohide
    ELSE IF TypeOf(autohide) = "number" /\ autohide.num > 0 THEN autohide.num
    ELSE 0

\* the data attributes the constructor sets on the element (data-bs-delay,
\* data-bs-autohide); NoAttr is an attribute that is not set
NoAttr == ""

ElementAttributes(autohide) ==
    IF autohide > 0
    THEN [delay |-> NumberToString(autohide), autohide |-> NoAttr]
    ELSE [delay |-> NoAttr, autohide |-> "false"]

\* the role the constructor gives the element
ElementRole(variant) ==
    IF variant = "error" \/ variant = "warning" THEN "alert" ELSE "undefined"

\* The toolkit's configuration of the widget, read from the data attributes
\* by getOrCreateInstance: autohide defaults to true, delay to 5000.
WidgetAutohide(toast) == toast.attrs.autohide # "false"
WidgetDelay(toast) ==
    IF toast.attrs.delay = NoAttr THEN 5000
    ELSE ParseNumber(toast.attrs.delay)

\* The outcome of `new ToastMasterToast(container, options)`: the error
\* thrown (NoError when it returns), whether the element was appended to the
\* container on the way, and the object built, its widget shown.
Construct(options) ==
    LET err == ValidationError(options)
        autohide == NormaliseAutohide(options.autohide)
        variant == IF options.variant = Undefined THEN "info"
                   ELSE options.variant.str
    IN  IF err # NoError
        THEN [error |-> err, appended |-> FALSE, toast |-> Undefined]
        ELSE [error |-> NoError, appended |-> TRUE,
              toast |->
                [scope |-> IF options.scope = Undefined THEN ""
                           ELSE options.scope.str,
                 content |-> options.content.str,
                 autohide |-> autohide,
                 variant |-> variant,
                 role |-> ElementRole(variant),
                 attrs |-> ElementAttributes(autohide),
                 isDisposed |-> FALSE,
                 widget |-> "shown",
                 hideCount |-> 0,
                 hiddenBy |-> ""]]

\* bootstrap.Toast.hide() on the toast's widget, called by `by`: nothing
\* when the widget is already hidden; otherwise hide.bs.toast is dispatched,
\* whose listener sets _isDisposed, and the hide transition starts.
\* hiddenBy remembers who started the hide (history, not program state).
InstanceHide(toast, by) ==
    IF toast.widget = "hidden" THEN toast
    ELSE [toast EXCEPT !.isDisposed = TRUE,
                       !.widget = "hiding",
                       !.hiddenBy = IF @ = "" THEN by ELSE @]

Min(a, b) == IF a < b THEN a ELSE b

\* dispose() without its guard on _isDisposed
dispose_Unguarded(toast, by) ==
    InstanceHide([toast EXCEPT !.hideCount = Min(@ + 1, MaxHideCount)], by)

\* ToastMasterToast.dispose(), called by `by` ("caller" or "manager");
\* hideCount counts the hide() requests it makes
dispose(toast, by) ==
    IF toast.isDisposed THEN toast
    ELSE InstanceHide([toast EXCEPT !.hideCount = Min(@ + 1, MaxHideCount)],
                      by)

----------------------------------------------------------------------------
(* ToastMaster: the registry *)

\* A deleted entry of a Map stays in the entry list as an empty slot until
\* the iteration over the list is over (ECMAScript Map.prototype.delete and
\* forEach); ids are 1, 2, ... and Empty is no id.
Empty == 0

\* delete(id) as a splice of an array: the later entries move up one slot
MapDelete_Splice(entries, id) == SelectSeq(entries, LAMBDA e : e # id)

\* Map.prototype.delete(id) on the entry list
MapDelete(entries, id) ==
    [j \in DOMAIN entries |-> IF entries[j] = id THEN Empty ELSE entries[j]]

\* the entry list with the empty slots dropped: the Map as the next call
\* sees it
Compact(entries) == SelectSeq(entries, LAMBDA e : e # Empty)

\* createToast that returns the toast without storing it in the Map
MapSet_Forget(entries, id) == entries

\* Map.prototype.set(id, toast) for the keys
MapSet(entries, id) ==
    IF \E j \in DOMAIN entries : entries[j] = id THEN entries
    ELSE Append(entries, id)

Keys(entries) == {entries[j] : j \in DOMAIN entries} \ {Empty}

\* getToastById(id): the id when registered, Empty for undefined
getToastById(id) == IF id \in Keys(toastMap) THEN id ELSE Empty

\* getToastsByScope(scope): the ids of the matching toasts, in Map order
getToastsByScope(scope) ==
    SelectSeq(toastMap, LAMBDA id : toasts[id].scope = scope)

\* _isValidVariant that only looks at the type of the value
_isValidVariant_AnyString(value) == value.type = "string"

\* _isValidVariant(value)
_isValidVariant(value) ==
    value.type = "string" /\ value.str \in {"info", "success", "warning", "error"}

\* the loop of disposeAllToasts stopping one entry short
DisposeEach_SkipLast(ts, entries, i) ==
    [id \in DOMAIN ts |->
        IF \E j \in i..(Len(entries) - 1) : entries[j] = id
        THEN dispose(ts[id], "manager") ELSE ts[id]]

\* for (const toast of this._toastMap.values()) toast.dispose()
RECURSIVE DisposeEach(_, _, _)
DisposeEach(ts, entries, i) ==
    IF i > Len(entries) THEN ts
    ELSE DisposeEach([ts EXCEPT ![entries[i]] = dispose(@, "manager")],
                     entries, i + 1)

\* the forEach of the disposeToastsBy... methods without its test on the
\* toast's field
ForEachDispose_NoTest(ts, entries, i, field, value) ==
    [toasts |-> DisposeEach(ts, entries, i),
     entries |-> [j \in DOMAIN entries |-> Empty]]

\* this._toastMap.forEach(toast => { if (toast.<field> === value)
\* { toast.dispose(); this._toastMap.delete(toast.getId()) } }), from
\* entry i on: the toasts and the entry list when the loop is over
RECURSIVE ForEachDispose(_, _, _, _, _)
ForEachDispose(ts, entries, i, field, value) ==
    IF i > Len(entries) THEN [toasts |-> ts, entries |-> entries]
    ELSE LET id == entries[i]
         IN  IF id # Empty /\ ts[id][field] = value
             THEN ForEachDispose([ts EXCEPT ![id] = dispose(@, "manager")],
                                 MapDelete(entries, id), i + 1, field, value)
             ELSE ForEachDispose(ts, entries, i + 1, field, value)

\* what a call did, for lastCall: the ids it removed from the registry and
\* the ids whose widget it asked to hide
Removed(before, after) == Keys(before) \ Keys(after)
Requested(before, after) ==
    {id \in DOMAIN before : after[id].hideCount # before[id].hideCount}

Call(op, arg, error, removed, requested) ==
    [op |-> op, arg |-> arg, error |-> error,
     removed |-> removed, requested |-> requested]

----------------------------------------------------------------------------
(* ToastMaster: positioning *)

Fields ==
    {"horizontalAlignment", "verticalAlignment",
     "horizontalOffset", "verticalOffset"}

\* the field initialiser of _currentPositioning
DefaultPositioning ==
    [horizontalAlignment |-> JSStr("end"), verticalAlignment |-> JSStr("end"),
     horizontalOffset |-> JSNum(3), verticalOffset |-> JSNum(2)]

\* the className the constructor gives the container
InitialClassName ==
    <<"toast-master-container", "position-fixed", "d-flex", "flex-column",
      "gap-3", "align-items-end">>

\* _isValidPosition that only looks at the type of the value
_isValidPosition_AnyString(value) == value.type = "string"

\* _isValidPosition(value)
_isValidPosition(value) ==
    value.type = "string" /\ value.str \in {"start", "center", "end"}

\* reading a property of the argument: undefined when it is not set
Property(p, f) == IF f \in DOMAIN p THEN p[f] ELSE Undefined

\* the argument after the two `delete`s of setPositioning
DeleteInvalid(p) ==
    LET kept == {f \in DOMAIN p :
                    f \in {"horizontalAlignment", "verticalAlignment"}
                        => _isValidPosition(p[f])}
    IN  [f \in kept |-> p[f]]

\* the argument taken as the whole new positioning, nothing merged
Spread_Replace(current, p) == [f \in DOMAIN current |-> Property(p, f)]

\* { ...current, ...p }
Spread(current, p) ==
    [f \in DOMAIN current \cup DOMAIN p |->
        IF f \in DOMAIN p THEN p[f] ELSE current[f]]

\* classList.add(token)
ClassListAdd(classes, token) ==
    IF \E j \in DOMAIN classes : classes[j] = token THEN classes
    ELSE Append(classes, token)

\* the offsets setPositioning is called with: the two ends of the declared
\* range 1 | 2 | 3 | 4 | 5
OffsetInputs == {JSNum(1), JSNum(5)}

\* the filter of setPositioning: the classes it strips before adding
IsPositionClass(className) ==
    \/ StartsWith(className, "top-")
    \/ StartsWith(className, "bottom-")
    \/ StartsWith(className, "start-")
    \/ StartsWith(className, "end-")
    \/ StartsWith(className, "mx-")
    \/ StartsWith(className, "my-")

\* every class name the container can carry, and the filter tabulated over
\* them (evaluated once; a name outside the table is an evaluation error)
ClassNames ==
    {InitialClassName[j] : j \in DOMAIN InitialClassName}
    \cup {"start-0", "end-0", "start-50", "translate-middle-x",
          "top-0", "bottom-0", "top-50", "translate-middle-y"}
    \cup {prefix \o TemplateString(v) :
            prefix \in {"mx-", "my-"},
            v \in OffsetInputs \cup {DefaultPositioning.horizontalOffset,
                                     DefaultPositioning.verticalOffset}}

IsPositionClassTable == [c \in ClassNames |-> IsPositionClass(c)]

RECURSIVE AddAll(_, _)
AddAll(classes, tokens) ==
    IF tokens = <<>> THEN classes
    ELSE AddAll(ClassListAdd(classes, Head(tokens)), Tail(tokens))

HorizontalClasses(pos) ==
    IF pos.horizontalAlignment = JSStr("start") THEN <<"start-0">>
    ELSE IF pos.horizontalAlignment = JSStr("end") THEN <<"end-0">>
    ELSE IF pos.horizontalAlignment = JSStr("center")
        THEN <<"start-50", "translate-middle-x">>
    ELSE <<>>

VerticalClasses(pos) ==
    IF pos.verticalAlignment = JSStr("start") THEN <<"top-0">>
    ELSE IF pos.verticalAlignment = JSStr("end") THEN <<"bottom-0">>
    ELSE IF pos.verticalAlignment = JSStr("center")
        THEN <<"top-50", "translate-middle-y">>
    ELSE <<>>

\* the container's classList after setPositioning rewrote it for pos
RewriteClasses(classes, pos) ==
    AddAll(SelectSeq(classes, LAMBDA c : ~IsPositionClassTable[c]),
           HorizontalClasses(pos) \o VerticalClasses(pos)
           \o <<"mx-" \o TemplateString(pos.horizontalOffset),
                "my-" \o TemplateString(pos.verticalOffset)>>)

\* setPositioning(p) as a function of the state it reads
SetPositioningResult(current, classes, p) ==
    LET pos == Spread(current, DeleteInvalid(p))
    IN  [positioning |-> pos, classList |-> RewriteClasses(classes, pos)]

----------------------------------------------------------------------------
(* Inputs *)

IdInputs == 1..(MaxToasts + 1)          \* MaxToasts + 1 is never generated
ScopeInputs == {"", "a", "b"}           \* no toast is created with "b"
MessageInputs == {JSStr("msg"), Undefined}
VariantInputs == {JSStr(v) : v \in Variants} \cup {JSStr("danger"), Undefined}

\* options of the life-cycle specification: an info toast of scope "a" with
\* the default autohide; createErrorToast adds persistent error toasts of
\* the default scope
LifeOptions == {OptionsObject(JSStr("a"), JSStr("msg"), Undefined, Undefined)}

\* options of the creation specification: every type error and every
\* class of autohide value
CreateOptions ==
    {OptionsPrimitive(v) : v \in {Undefined, JSNull, JSStr("msg"), JSNum(1)}}
    \cup
    {OptionsObject(scope, content, autohide, variant) :
        scope \in {Undefined, JSStr("a"), JSNum(1)},
        content \in {JSStr("msg"), Undefined, JSNum(1)},
        autohide \in {Undefined, JSBool(TRUE), JSBool(FALSE), JSNum(0),
                      JSNum(-1), JSNum(250), JSStr("5000"), JSNull},
        variant \in {Undefined, JSStr("error"), JSStr("danger"), JSNum(1)}}

AlignmentInputs == {JSStr("start"), JSStr("center"), JSStr("end"), JSStr("top")}

PositioningInputs ==
    {[f \in S |-> full[f]] :
        S \in SUBSET Fields,
        full \in [horizontalAlignment : AlignmentInputs,
                  verticalAlignment : AlignmentInputs,
                  horizontalOffset : OffsetInputs,
                  verticalOffset : OffsetInputs]}

----------------------------------------------------------------------------
(* State after `new ToastMaster()` *)

Init ==
    /\ toasts = <<>>
    /\ toastMap = <<>>
    /\ container = <<>>
    /\ positioning =
          SetPositioningResult(DefaultPositioning, InitialClassName,
                               DefaultPositioning).positioning
    /\ classList =
          SetPositioningResult(DefaultPositioning, InitialClassName,
                               DefaultPositioning).classList
    /\ lastCall = Call("constructor", Undefined, NoError, {}, {})

----------------------------------------------------------------------------
(* Operations of the manager *)

ErrVariantArgument == "The variant must be one of the following values: info, success, warning, error."

\* createToast(options), also the body of the three shorthands; the id is
\* the fresh crypto.randomUUID() of the new toast
CreateToastWith(op, arg, options) ==
    LET r == Construct(options)
        id == Len(toasts) + 1
    IN  /\ container' = IF r.appended THEN Append(container, id) ELSE container
        /\ IF r.error = NoError
           THEN /\ toasts' = Append(toasts, r.toast)
                /\ toastMap' = MapSet(toastMap, id)
           ELSE UNCHANGED <<toasts, toastMap>>
        /\ lastCall' = Call(op, arg, r.error, {}, {})
        /\ UNCHANGED posVars

createToast(options) == CreateToastWith("createToast", options, options)

createSuccessToast(successMessage) ==
    CreateToastWith("createSuccessToast", successMessage,
        OptionsObject(Undefined, successMessage, Undefined, JSStr("success")))

createWarningToast(warningMessage) ==
    CreateToastWith("createWarningToast", warningMessage,
        OptionsObject(Undefined, warningMessage, JSNum(10000),
                      JSStr("warning")))

createErrorToast(errorMessage) ==
    CreateToastWith("createErrorToast", errorMessage,
        OptionsObject(Undefined, errorMessage, JSBool(FALSE), JSStr("error")))

disposeAllToasts ==
    /\ toasts' = DisposeEach(toasts, toastMap, 1)
    /\ toastMap' = <<>>
    /\ lastCall' = Call("disposeAllToasts", Undefined, NoError,
                        Removed(toastMap, toastMap'),
                        Requested(toasts, toasts'))
    /\ UNCHANGED <<container, posVars>>

disposeToastById(id) ==
    /\ IF getToastById(id) # Empty
       THEN /\ toasts' = [toasts EXCEPT ![id] = dispose(@, "manager")]
            /\ toastMap' = Compact(MapDelete(toastMap, id))
       ELSE UNCHANGED <<toasts, toastMap>>
    /\ lastCall' = Call("disposeToastById", id, NoError,
                        Removed(toastMap, toastMap'),
                        Requested(toasts, toasts'))
    /\ UNCHANGED <<container, posVars>>

disposeToastsByScope(scope) ==
    LET r == ForEachDispose(toasts, toastMap, 1, "scope", scope)
    IN  /\ toasts' = r.toasts
        /\ toastMap' = Compact(r.entries)
        /\ lastCall' = Call("disposeToastsByScope", scope, NoError,
                            Removed(toastMap, toastMap'),
                            Requested(toasts, toasts'))
        /\ UNCHANGED <<container, posVars>>

disposeToastsByVariant(variant) ==
    /\ IF ~_isValidVariant(variant)
       THEN /\ UNCHANGED <<toasts, toastMap>>
            /\ lastCall' = Call("disposeToastsByVariant", variant,
                                ErrVariantArgument, {}, {})
       ELSE LET r == ForEachDispose(toasts, toastMap, 1, "variant",
                                    variant.str)
            IN  /\ toasts' = r.toasts
                /\ toastMap' = Compact(r.entries)
                /\ lastCall' = Call("disposeToastsByVariant", variant, NoError,
                                    Removed(toastMap, toastMap'),
                                    Requested(toasts, toasts'))
    /\ UNCHANGED <<container, posVars>>

setPositioning(p) ==
    LET r == SetPositioningResult(positioning, classList, p)
    IN  /\ positioning' = r.positioning
        /\ classList' = r.classList
        /\ lastCall' = Call("setPositioning", p, NoError, {}, {})
        /\ UNCHANGED toastVars

----------------------------------------------------------------------------
(* Operations on one toast: the caller's own dispose() on a toast it got    *)
(* from createToast, and the toolkit's events.                             *)

ToastDispose(id) ==
    /\ id \in DOMAIN toasts
    /\ toasts' = [toasts EXCEPT ![id] = dispose(@, "caller")]
    /\ lastCall' = Call("dispose", id, NoError, {}, Requested(toasts, toasts'))
    /\ UNCHANGED <<toastMap, container, posVars>>

\* the autohide timer of the widget expires: the toolkit calls hide()
AutohideTimeout(id) ==
    /\ id \in DOMAIN toasts
    /\ WidgetAutohide(toasts[id])
    /\ toasts[id].widget # "hidden"
    /\ toasts' = [toasts EXCEPT ![id] = InstanceHide(@, "timeout")]
    /\ lastCall' = Call("timeout", id, NoError, {}, {})
    /\ UNCHANGED <<toastMap, container, posVars>>

\* the user clicks the close button (data-bs-dismiss="toast"): the toolkit
\* calls hide()
CloseClick(id) ==
    /\ id \in DOMAIN toasts
    /\ toasts[id].widget # "hidden"
    /\ toasts' = [toasts EXCEPT ![id] = InstanceHide(@, "click")]
    /\ lastCall' = Call("click", id, NoError, {}, {})
    /\ UNCHANGED <<toastMap, container, posVars>>

\* hidden.bs.toast without the listener that removes the element
HideComplete_NoRemove(id) ==
    /\ id \in DOMAIN toasts
    /\ toasts[id].widget = "hiding"
    /\ toasts' = [toasts EXCEPT ![id].widget = "hidden"]
    /\ lastCall' = Call("hidden.bs.toast", id, NoError, {}, {})
    /\ UNCHANGED <<toastMap, container, posVars>>

\* the hide transition ends: the toolkit dispatches hidden.bs.toast, whose
\* listener removes the element from its parent
HideComplete(id) ==
    /\ id \in DOMAIN toasts
    /\ toasts[id].widget = "hiding"
    /\ toasts' = [toasts EXCEPT ![id].widget = "hidden"]
    /\ container' = SelectSeq(container, LAMBDA e : e # id)
    /\ lastCall' = Call("hidden.bs.toast", id, NoError, {}, {})
    /\ UNCHANGED <<toastMap, posVars>>

----------------------------------------------------------------------------
(* Specifications.  The registry and the positioning share no state, so    *)
(* each is explored on its own; creation is explored once with the few     *)
(* kinds of toast the life cycle needs (scoped info toasts that hide by    *)
(* themselves, persistent error toasts of the default scope) and once with *)
(* every kind of argument.                                                 *)

\* a behaviour constructs at most `limit` toasts; a call that throws
\* constructs none
Room(content, limit) == content.type = "string" => Len(toasts) < limit

Next ==
    \/ \E options \in LifeOptions :
          Len(toasts) < MaxToasts /\ createToast(options)
    \/ Len(toasts) < MaxToasts /\ createErrorToast(JSStr("msg"))
    \/ disposeAllToasts
    \/ \E id \in IdInputs : disposeToastById(id)
    \/ \E scope \in ScopeInputs : disposeToastsByScope(scope)
    \/ \E variant \in VariantInputs : disposeToastsByVariant(variant)
    \/ \E id \in IdInputs : ToastDispose(id)
    \/ \E id \in IdInputs : AutohideTimeout(id)
    \/ \E id \in IdInputs : CloseClick(id)
    \/ \E id \in IdInputs : HideComplete(id)

Spec == Init /\ [][Next]_vars

NextCreate ==
    \/ \E options \in CreateOptions :
          /\ Construct(options).error = NoError => Len(toasts) < MaxCreated
          /\ createToast(options)
    \/ \E msg \in MessageInputs :
          Room(msg, MaxCreated) /\ createSuccessToast(msg)
    \/ \E msg \in MessageInputs :
          Room(msg, MaxCreated) /\ createWarningToast(msg)
    \/ \E msg \in MessageInputs :
          Room(msg, MaxCreated) /\ createErrorToast(msg)

SpecCreate == Init /\ [][NextCreate]_vars

NextPositioning == \E p \in PositioningInputs : setPositioning(p)

SpecPositioning == Init /\ [][NextPositioning]_vars

----------------------------------------------------------------------------
(* Properties of the life cycle (Spec) *)

Registered(id) == getToastById(id) # Empty

InScope(id, scope) ==
    \E j \in DOMAIN getToastsByScope(scope) : getToastsByScope(scope)[j] = id

\* C1: for every toast and every interleaving of dispose() calls, autohide
\* timeout and close click, the disposed flag never goes back from true to
\* false, dispose() requests the widget's hide() at most once over the
\* toast's life, and a dispose() call made once the flag is set requests no
\* hide and changes no state.
C1_DisposeIdempotent ==
    [][\A id \in DOMAIN toasts :
          /\ toasts[id].isDisposed => toasts'[id].isDisposed
          /\ toasts'[id].hideCount <= 1
          /\ toasts[id].isDisposed
                => toasts'[id].hideCount = toasts[id].hideCount
          /\ (lastCall'.op = "dispose" /\ lastCall'.arg = id
                /\ toasts[id].isDisposed)
                => /\ toasts' = toasts
                   /\ toastMap' = toastMap
                   /\ container' = container
                   /\ lastCall'.requested = {}]_vars

\* C1 witness: dispose() was called a second time on a toast that an earlier
\* dispose() had hidden, and it asked for nothing
C1_Witness ==
    /\ lastCall.op = "dispose"
    /\ lastCall.requested = {}
    /\ toasts[lastCall.arg].isDisposed
    /\ toasts[lastCall.arg].hideCount = 1
    /\ toasts[lastCall.arg].hiddenBy = "caller"

\* C2: a toast hidden by the autohide timeout, by a click on the close
\* button or by disposal through the manager is, once its hide has
\* completed, no longer in the registry: getToastById(id) is undefined and
\* getToastsByScope(its scope) does not contain it.
C2_HiddenToastUnregistered ==
    \A id \in DOMAIN toasts :
        (toasts[id].widget = "hidden"
            /\ toasts[id].hiddenBy \in {"timeout", "click", "manager"})
        => /\ getToastById(id) = Empty
           /\ ~InScope(id, toasts[id].scope)

\* C3: disposeToastsByScope(s) removes from the registry exactly the toasts
\* whose scope is s, also when several of them are stored next to each
\* other: no registered toast has scope s afterwards, every registered toast
\* of another scope stays registered and gets no hide request, and each
\* removed toast gets exactly one hide request unless it was disposed
\* already.
C3_DisposeByScopeExact ==
    [][lastCall'.op = "disposeToastsByScope" =>
          /\ \A id \in Keys(toastMap') : toasts'[id].scope # lastCall'.arg
          /\ Keys(toastMap) \ Keys(toastMap')
                = {id \in Keys(toastMap) : toasts[id].scope = lastCall'.arg}
          /\ \A id \in DOMAIN toasts :
                toasts[id].scope # lastCall'.arg => toasts'[id] = toasts[id]
          /\ \A id \in Keys(toastMap) \ Keys(toastMap') :
                IF toasts[id].isDisposed
                THEN toasts'[id].hideCount = toasts[id].hideCount
                ELSE /\ toasts[id].hideCount = 0
                     /\ toasts'[id].hideCount = 1]_vars

\* C3 witness: one call removed two toasts stored next to each other
C3_Witness ==
    /\ lastCall.op = "disposeToastsByScope"
    /\ \E id \in lastCall.removed :
          /\ id + 1 \in lastCall.removed
          /\ {id, id + 1} \subseteq lastCall.requested

\* C4: disposeToastsByVariant with a value outside {info, success, warning,
\* error} throws, leaving the registry unchanged and no toast asked to hide;
\* with a value of the enum it does not throw, whether or not a toast
\* matches.
C4_DisposeByVariantValidates ==
    [][lastCall'.op = "disposeToastsByVariant" =>
          IF lastCall'.arg \in {JSStr("info"), JSStr("success"),
                                JSStr("warning"), JSStr("error")}
          THEN lastCall'.error = NoError
          ELSE /\ lastCall'.error # NoError
               /\ toastMap' = toastMap
               /\ toasts' = toasts
               /\ container' = container]_vars

\* C4 witness: a string outside the enum was refused while an undisposed
\* toast was registered
C4_Witness ==
    /\ lastCall.op = "disposeToastsByVariant"
    /\ lastCall.arg = JSStr("danger")
    /\ lastCall.error # NoError
    /\ \E id \in Keys(toastMap) : ~toasts[id].isDisposed

\* C5: disposeToastById(id) with an id that is no key of the registry and
\* disposeToastsByScope(s) with a scope no registered toast has do not
\* throw and change neither the registry nor any toast's disposed flag or
\* hide requests.
C5_NoMatchNoOp ==
    [][(\/ /\ lastCall'.op = "disposeToastById"
            /\ lastCall'.arg \notin Keys(toastMap)
         \/ /\ lastCall'.op = "disposeToastsByScope"
            /\ \A id \in Keys(toastMap) : toasts[id].scope # lastCall'.arg)
       => /\ lastCall'.error = NoError
          /\ toastMap' = toastMap
          /\ toasts' = toasts
          /\ container' = container]_vars

\* C5 witness: a scope nobody has was disposed while an undisposed toast was
\* registered
C5_Witness ==
    /\ lastCall.op = "disposeToastsByScope"
    /\ lastCall.arg = "b"
    /\ lastCall.removed = {}
    /\ \E id \in Keys(toastMap) : ~toasts[id].isDisposed

\* C6: after disposeAllToasts() the registry is empty; every toast that was
\* registered and not yet disposed has had hide requested exactly once, and
\* a toast that was disposed already gets no further hide request.
C6_DisposeAll ==
    [][lastCall'.op = "disposeAllToasts" =>
          /\ toastMap' = <<>>
          /\ \A id \in DOMAIN toasts :
                IF id \in Keys(toastMap) /\ ~toasts[id].isDisposed
                THEN /\ toasts[id].hideCount = 0
                     /\ toasts'[id].hideCount = 1
                ELSE toasts'[id] = toasts[id]]_vars

\* C6 witness: one call emptied a registry that held an undisposed toast and
\* a toast the timeout had disposed, asking only the first to hide
C6_Witness ==
    /\ lastCall.op = "disposeAllToasts"
    /\ lastCall.requested # {}
    /\ \E id \in lastCall.removed \ lastCall.requested :
          toasts[id].hiddenBy = "timeout"
    /\ toastMap = <<>>

----------------------------------------------------------------------------
(* Properties of the positioning (SpecPositioning) *)

Alignments == {JSStr("start"), JSStr("center"), JSStr("end")}

\* C7: starting from the defaults end/end/3/2, every setPositioning call
\* merges its argument over the current positioning: each of the four
\* fields the call does not set keeps the value it had before the call.
C7_PartialUpdateKeepsUnset ==
    /\ positioning.horizontalAlignment = JSStr("end")
    /\ positioning.verticalAlignment = JSStr("end")
    /\ positioning.horizontalOffset = JSNum(3)
    /\ positioning.verticalOffset = JSNum(2)
    /\ [][lastCall'.op = "setPositioning" =>
             \A f \in Fields :
                 f \notin DOMAIN lastCall'.arg
                     => positioning'[f] = positioning[f]]_vars

\* C7 witness: a call that set only verticalOffset kept a horizontal
\* alignment and a horizontal offset that earlier calls had set
C7_Witness ==
    /\ lastCall.op = "setPositioning"
    /\ DOMAIN lastCall.arg = {"verticalOffset"}
    /\ positioning.verticalOffset = lastCall.arg.verticalOffset
    /\ positioning.horizontalAlignment = JSStr("center")
    /\ positioning.horizontalOffset = JSNum(5)

\* C8: setPositioning drops an invalid alignment silently: a call whose
\* horizontalAlignment or verticalAlignment is not start, center or end
\* does not throw and leaves that alignment as it was, so both current
\* alignments are always one of start, center, end.
C8_InvalidAlignmentDropped ==
    /\ positioning.horizontalAlignment \in Alignments
    /\ positioning.verticalAlignment \in Alignments
    /\ [][lastCall'.op = "setPositioning" =>
             /\ lastCall'.error = NoError
             /\ \A f \in {"horizontalAlignment", "verticalAlignment"} :
                   /\ positioning'[f] \in Alignments
                   /\ (f \in DOMAIN lastCall'.arg
                         /\ lastCall'.arg[f] \notin Alignments)
                         => positioning'[f] = positioning[f]]_vars

\* C8 witness: a call with an invalid horizontalAlignment left the
\* alignment an earlier call had set
C8_Witness ==
    /\ lastCall.op = "setPositioning"
    /\ "horizontalAlignment" \in DOMAIN lastCall.arg
    /\ lastCall.arg.horizontalAlignment = JSStr("top")
    /\ positioning.horizontalAlignment = JSStr("start")

----------------------------------------------------------------------------
(* Properties of creation (SpecCreate) *)

\* the errors the library words itself
DescriptiveErrors ==
    {ErrOptionsObject, ErrScope, ErrContent, ErrAutohide, ErrVariant}

\* an argument of createToast with a wrong-typed option
WrongTyped(options) ==
    \/ options.type # "object"
    \/ options.scope.type \notin {"undefined", "string"}
    \/ options.content.type # "string"
    \/ options.autohide.type \notin {"undefined", "number", "boolean"}
    \/ /\ options.variant.type # "undefined"
       /\ options.variant \notin {JSStr("info"), JSStr("success"),
                                  JSStr("warning"), JSStr("error")}

\* C9: createToast fails with a descriptive error for each wrong-typed
\* option (non-object options, non-string scope, missing or non-string
\* content, autohide neither number nor boolean, variant outside the enum),
\* and whenever it throws the registry is unchanged, no element has been
\* appended to the container and no widget has been shown.
C9_CreateValidates ==
    [][lastCall'.op = "createToast" =>
          /\ WrongTyped(lastCall'.arg)
                => lastCall'.error \in DescriptiveErrors
          /\ lastCall'.error # NoError
                => /\ toastMap' = toastMap
                   /\ container' = container
                   /\ toasts' = toasts]_vars

\* the toast the last call constructed
Created == toasts[Len(toasts)]

Persistent(toast) == ~WidgetAutohide(toast)
HidesAfter(toast, ms) == WidgetAutohide(toast) /\ WidgetDelay(toast) = ms

\* C10: the autohide option is normalised as documented: false, 0 and any
\* non-positive number give a persistent toast (autohide disabled on the
\* widget), true or an omitted option give the default 5000 ms, a positive
\* number n gives a delay of n ms; createSuccessToast gives 5000 ms,
\* createWarningToast 10000 ms and createErrorToast a persistent toast.
C10_AutohideNormalised ==
    lastCall.error = NoError =>
        /\ lastCall.op = "createToast" =>
              LET autohide == lastCall.arg.autohide
              IN  /\ (autohide = JSBool(FALSE)
                        \/ (autohide.type = "number" /\ autohide.num <= 0))
                        => Persistent(Created)
                  /\ (autohide = JSBool(TRUE) \/ autohide = Undefined)
                        => HidesAfter(Created, 5000)
                  /\ (autohide.type = "number" /\ autohide.num > 0)
                        => HidesAfter(Created, autohide.num)
        /\ lastCall.op = "createSuccessToast" => HidesAfter(Created, 5000)
        /\ lastCall.op = "createWarningToast" => HidesAfter(Created, 10000)
        /\ lastCall.op = "createErrorToast" => Persistent(Created)

\* C10 witness: createToast with autohide: true built a toast that hides
\* after the default delay
C10_Witness ==
    /\ lastCall.op = "createToast"
    /\ lastCall.error = NoError
    /\ lastCall.arg.autohide = JSBool(TRUE)
    /\ Created.autohide = 5000
    /\ Created.attrs.delay = "5000"

\* C11: createToast called with only the required content yields a toast
\* with variant info, autohide 5000 ms and scope the empty string, and the
\* toast is registered: getToastById(toast.getId()) returns it right after
\* the call.
C11_DefaultsAndRegistered ==
    (/\ lastCall.op = "createToast"
     /\ lastCall.arg.type = "object"
     /\ lastCall.arg.content.type = "string"
     /\ lastCall.arg.scope = Undefined
     /\ lastCall.arg.autohide = Undefined
     /\ lastCall.arg.variant = Undefined)
    => /\ lastCall.error = NoError
       /\ Len(toasts) > 0
       /\ Created.variant = "info"
       /\ Created.autohide = 5000
       /\ HidesAfter(Created, 5000)
       /\ Created.scope = ""
       /\ Created.content = lastCall.arg.content.str
       /\ getToastById(Len(toasts)) = Len(toasts)
       /\ ~Created.isDisposed

\* C11 witness: createToast({ content: 'msg' }) returned a registered toast
C11_Witness ==
    /\ lastCall.op = "createToast"
    /\ lastCall.arg = OptionsObject(Undefined, JSStr("msg"), Undefined,
                                    Undefined)
    /\ lastCall.error = NoError
    /\ toastMap = <<Len(toasts)>>
    /\ Created.variant = "info"

----------------------------------------------------------------------------
(* The container's classes (SpecPositioning) *)

\* the classes that place the container
PlacementClasses ==
    {"start-0", "end-0", "start-50", "top-0", "bottom-0", "top-50",
     "translate-middle-x", "translate-middle-y"}
    \cup {c \in ClassNames : StartsWith(c, "mx-") \/ StartsWith(c, "my-")}

ClassSet(classes) == {classes[j] : j \in DOMAIN classes}

\* the classList of a container constructed with positioning pos
FreshClasses(pos) == RewriteClasses(InitialClassName, pos)

\* C12: the container's positioning classes depend only on the current
\* positioning, not on the calls that led to it: they are the classes a
\* fresh container gets for the same positioning; translate-middle-x is
\* present only when horizontalAlignment is center and translate-middle-y
\* only when verticalAlignment is center.
C12_ClassesFollowPositioning ==
    /\ ClassSet(classList) \cap PlacementClasses
         = ClassSet(FreshClasses(positioning)) \cap PlacementClasses
    /\ "translate-middle-x" \in ClassSet(classList)
         => positioning.horizontalAlignment = JSStr("center")
    /\ "translate-middle-y" \in ClassSet(classList)
         => positioning.verticalAlignment = JSStr("center")

----------------------------------------------------------------------------
(* Teardown (SpecTeardown): the life cycle with the toolkit delivering     *)
(* hidden.bs.toast for every hide it started.                              *)

NextTeardown == Next /\ Len(toasts') <= MaxTeardown

SpecTeardown ==
    /\ Init
    /\ [][NextTeardown]_vars
    /\ \A id \in 1..MaxTeardown : WF_vars(HideComplete(id))

\* the toast's element is a child of the container
InContainer(id) == \E j \in DOMAIN container : container[j] = id

\* C13: teardown is driven by the toolkit's events, in order: dispose()
\* only requests hide and removes neither the element nor the registry
\* entry; the disposed flag is set at hide-start, while the element is
\* still in the container, and the element leaves the container only at
\* hide-completion, so a removed element always belongs to a disposed
\* toast; and, the toolkit delivering hide-completion after hide-start,
\* the element of every disposed toast is eventually removed.
C13_TeardownByEvents ==
    /\ [](\A id \in DOMAIN toasts : ~InContainer(id) => toasts[id].isDisposed)
    /\ [][/\ lastCall'.op = "dispose"
                => container' = container /\ toastMap' = toastMap
           /\ \A id \in DOMAIN toasts :
                /\ (~toasts[id].isDisposed /\ toasts'[id].isDisposed)
                      => /\ toasts'[id].widget = "hiding"
                         /\ container' = container
                         /\ InContainer(id)
                /\ (InContainer(id) /\ ~InContainer(id)')
                      => /\ lastCall'.op = "hidden.bs.toast"
                         /\ lastCall'.arg = id
                         /\ toasts[id].isDisposed]_vars
    /\ \A id \in 1..MaxTeardown :
          (id \in DOMAIN toasts /\ toasts[id].isDisposed)
              ~> (id \in DOMAIN toasts /\ ~InContainer(id))

\* C13 witness: the element of a toast hidden by its own dispose() has left
\* the container at hide-completion
C13_Witness ==
    /\ lastCall.op = "hidden.bs.toast"
    /\ toasts[lastCall.arg].hiddenBy = "caller"
    /\ toasts[lastCall.arg].isDisposed
    /\ toasts[lastCall.arg].widget = "hidden"
    /\ ~InContainer(lastCall.arg)

====
